---- MODULE Spec2Model ----
(***************************************************************************)
(* Wall painting robot: the coverage planner of app/planner.py (grid       *)
(* builder, obstacle marker, boustrophedon sweep, A* navigator, cleanup    *)
(* pass, waypoint compactor) and the create/retrieve API of app/main.py    *)
(* over the sqlite store of app/database.py.                               *)
(*                                                                         *)
(* Lengths are exact integers counted in ticks of 0.0001 length units, so  *)
(* the compactor's tolerance 0.001 is 10 ticks.  Coverage widths are       *)
(* multiples of 10 ticks, which makes every cell centre (c + 0.5) * cw,    *)
(* the obstacle margin 0.3 * cw and the adjacency threshold 1.5 * cw an    *)
(* integer.  Arithmetic is exact: the rounding of binary floating point is *)
(* not modelled.                                                           *)
(***************************************************************************)
EXTENDS Integers, Sequences, FiniteSets

VARIABLES
    config,         \* WallConfig of the current planning call
    grid,           \* [<<row, col>> -> Cell]; <<>> before create_grid
    waypoints,      \* the planner's raw waypoint list
    row,            \* paint_with_obstacle_avoidance: row
    direction,      \* paint_with_obstacle_avoidance: direction (1 or -1)
    segments,       \* segments of the current row still to process
    cols,           \* columns of the current segment still to paint
    target_cell,    \* <<row, col>> of the last target_cell, or <<>>
    nav_start,      \* <<x, y>> the Navigator was last called from, or <<>>
    nav_path,       \* what the Navigator last returned
    output,         \* what generate_trajectory returned
    pc,             \* position in the call
    db_trajectories,\* ids of the rows of table trajectories
    db_waypoints,   \* rows of table waypoints, in insertion order
    post_id,        \* config_hash of the last POST
    post_response,  \* body of the last POST response
    get_id,         \* trajectory_id of the last GET
    get_response,   \* body of the last GET response
    posts           \* number of POST requests served

vars == <<config, grid, waypoints, row, direction, segments, cols, target_cell,
          nav_start, nav_path, output, pc, db_trajectories, db_waypoints,
          post_id, post_response, get_id, get_response, posts>>

api_vars == <<db_trajectories, db_waypoints, post_id, post_response, get_id,
              get_response, posts>>

----------------------------------------------------------------------------
(* Bounds of the model *)

MaxRows == 3

MaxCols == 3

MaxBlocked == 3

MaxPosts == 2

(* the largest grid, in cells, the Navigator is applied to on its own *)
NavMaxCells == 9

(* 0.001 in ticks: remove_consecutive_duplicates *)
TOLERANCE == 10

Abs(n) == IF n < 0 THEN -n ELSE n

Max(a, b) == IF a >= b THEN a ELSE b

Last(s) == s[Len(s)]

Reverse(s) == [i \in 1..Len(s) |-> s[Len(s) + 1 - i]]

----------------------------------------------------------------------------
(* create_grid *)

num_rows(cfg) == Max(1, cfg.height \div cfg.coverage_width)

num_cols(cfg) == Max(1, cfg.width \div cfg.coverage_width)

Cells(cfg) == (0..(num_rows(cfg) - 1)) \X (0..(num_cols(cfg) - 1))

(* (index + 0.5) * coverage_width *)
Center(index, cw) == ((2 * index + 1) * cw) \div 2

Cell(r, c, x, y) ==
    [row |-> r, col |-> c, x |-> x, y |-> y, visited |-> FALSE, blocked |-> FALSE]

create_grid(cfg) ==
    [k \in Cells(cfg) |->
        Cell(k[1], k[2], Center(k[2], cfg.coverage_width),
             Center(k[1], cfg.coverage_width))]

(* len(grid) and len(grid[0]) *)
GridRows(g) == Cardinality({k[1] : k \in DOMAIN g})

GridCols(g) == Cardinality({k[2] : k \in DOMAIN g})

----------------------------------------------------------------------------
(* mark_obstacles *)

InsideInflated(obs, cell, cw) ==
    LET margin == (3 * cw) \div 10
    IN  /\ obs.x - margin <= cell.x
        /\ cell.x <= obs.x + obs.width + margin
        /\ obs.y - margin <= cell.y
        /\ cell.y <= obs.y + obs.height + margin

mark_obstacles(g, cfg) ==
    [k \in DOMAIN g |->
        IF \E obs \in cfg.obstacles : InsideInflated(obs, g[k], cfg.coverage_width)
        THEN [g[k] EXCEPT !.blocked = TRUE]
        ELSE g[k]]

----------------------------------------------------------------------------
(* is_adjacent: dx < 1.5 * coverage and dy < 1.5 * coverage *)

is_adjacent(x1, y1, x2, y2, coverage) ==
    /\ 2 * Abs(x2 - x1) < 3 * coverage
    /\ 2 * Abs(y2 - y1) < 3 * coverage

(* get_row_segments: maximal runs of non-blocked cells, left to right *)
RECURSIVE ScanSegments(_, _, _, _, _)
ScanSegments(g, r, col, start_col, acc) ==
    IF col >= GridCols(g)
    THEN IF start_col >= 0 THEN Append(acc, <<start_col, GridCols(g) - 1>>) ELSE acc
    ELSE IF ~g[<<r, col>>].blocked
         THEN ScanSegments(g, r, col + 1, IF start_col < 0 THEN col ELSE start_col, acc)
         ELSE IF start_col >= 0
              THEN ScanSegments(g, r, col + 1, -1, Append(acc, <<start_col, col - 1>>))
              ELSE ScanSegments(g, r, col + 1, -1, acc)

(* faulty variant: only the first run of a row returned *)
RowSegmentsFirstOnly(g, r) ==
    IF r >= GridRows(g) THEN <<>>
    ELSE LET segs == ScanSegments(g, r, 0, -1, <<>>)
         IN  IF segs = <<>> THEN <<>> ELSE <<Head(segs)>>

get_row_segments(g, r) ==
    IF r >= GridRows(g) THEN <<>> ELSE ScanSegments(g, r, 0, -1, <<>>)

Waypoint(x, y, action) == [x |-> x, y |-> y, action |-> action]

----------------------------------------------------------------------------
(* find_nearest_cell: least squared distance, the first in row-major order
   on ties (the scan replaces the minimum only on a strictly smaller one) *)

SqDist(cell, x, y) == (cell.x - x) * (cell.x - x) + (cell.y - y) * (cell.y - y)

RowMajorBefore(a, b) == a[1] < b[1] \/ (a[1] = b[1] /\ a[2] < b[2])

find_nearest_cell(g, x, y) ==
    IF DOMAIN g = {} THEN <<>>
    ELSE CHOOSE k \in DOMAIN g :
            \A j \in DOMAIN g \ {k} :
                \/ SqDist(g[k], x, y) < SqDist(g[j], x, y)
                \/ SqDist(g[k], x, y) = SqDist(g[j], x, y) /\ RowMajorBefore(k, j)

(* heuristic: Manhattan distance between cell centres *)
heuristic(g, k, target) == Abs(g[k].x - g[target].x) + Abs(g[k].y - g[target].y)

(* faulty variant: the blocked test of the neighbour loop left out *)
NeighborsThroughObstacles(g, k) ==
    {n \in {<<k[1], k[2] + 1>>, <<k[1], k[2] - 1>>, <<k[1] + 1, k[2]>>, <<k[1] - 1, k[2]>>} :
        n \in DOMAIN g}

(* the in-bounds, non-blocked 4-neighbours of a cell *)
Neighbors(g, k) ==
    {n \in {<<k[1], k[2] + 1>>, <<k[1], k[2] - 1>>, <<k[1] + 1, k[2]>>, <<k[1] - 1, k[2]>>} :
        n \in DOMAIN g /\ ~g[n].blocked}

(* heapq.heappop on (f_score, cell) tuples: least f_score, then Cell.__lt__,
   which orders by (row, col).  An entry is <<f, row, col>>. *)
HeapLess(a, b) ==
    \/ a[1] < b[1]
    \/ a[1] = b[1] /\ RowMajorBefore(<<a[2], a[3]>>, <<b[2], b[3]>>)

(* faulty variant: the heap ordered by the cell alone, the f_score ignored *)
HeapMinIgnoringScore(open_set) ==
    CHOOSE e \in open_set :
        \A o \in open_set \ {e} :
            \/ RowMajorBefore(<<o[2], o[3]>>, <<e[2], e[3]>>)
            \/ <<o[2], o[3]>> = <<e[2], e[3]>> /\ e[1] < o[1]

HeapMin(open_set) == CHOOSE e \in open_set : \A o \in open_set \ {e} : HeapLess(e, o)

(* reconstruct_path: walk came_from back from current, leaving out the
   start cell, and reverse *)
RECURSIVE WalkBack(_, _, _, _)
WalkBack(g, came_from, current, start) ==
    IF current \in DOMAIN came_from
    THEN (IF current # start
          THEN <<Waypoint(g[current].x, g[current].y, "move")>>
          ELSE <<>>) \o WalkBack(g, came_from, came_from[current], start)
    ELSE <<>>

(* faulty variant: the path left in target-to-start order *)
ReconstructUnreversed(g, came_from, current, start) ==
    WalkBack(g, came_from, current, start)

reconstruct_path(g, came_from, current, start) ==
    Reverse(WalkBack(g, came_from, current, start))

(* the neighbours of current whose g_score the relaxation improves *)
Improved(g, current, g_score, cw) ==
    {n \in Neighbors(g, current) :
        n \notin DOMAIN g_score \/ g_score[current] + cw < g_score[n]}

(* the A* loop of find_path_around_obstacles *)
RECURSIVE AStar(_, _, _, _, _, _, _)
AStar(g, open_set, came_from, g_score, start, target, cw) ==
    IF open_set = {} THEN <<>>
    ELSE LET e == HeapMin(open_set)
             current == <<e[2], e[3]>>
         IN  IF current = target
             THEN reconstruct_path(g, came_from, current, start)
             ELSE LET better == Improved(g, current, g_score, cw)
                      tentative_g == g_score[current] + cw
                  IN  AStar(g,
                            (open_set \ {e}) \cup
                                {<<tentative_g + heuristic(g, n, target), n[1], n[2]>> : n \in better},
                            [n \in DOMAIN came_from \cup better |->
                                IF n \in better THEN current ELSE came_from[n]],
                            [n \in DOMAIN g_score \cup better |->
                                IF n \in better THEN tentative_g ELSE g_score[n]],
                            start, target, cw)

find_path_around_obstacles(g, start_x, start_y, target, cfg) ==
    LET start_cell == find_nearest_cell(g, start_x, start_y)
    IN  IF start_cell = <<>> \/ g[start_cell].blocked
        THEN <<>>
        ELSE AStar(g, {<<heuristic(g, start_cell, target), start_cell[1], start_cell[2]>>},
                   <<>>, [n \in {start_cell} |-> 0], start_cell, target,
                   cfg.coverage_width)

----------------------------------------------------------------------------
(* faulty variant: the visited flag never set *)
MarkVisitedNever(g, k) == g

(* cell.visited = True *)
MarkVisited(g, k) == [g EXCEPT ![k].visited = TRUE]

(* faulty variant: the coordinates of the emitted waypoint swapped *)
EmitAtSwapped(wps, cell, action) == Append(wps, Waypoint(cell.y, cell.x, action))

(* waypoints.append(Waypoint(x=cell.x, y=cell.y, action=action)) *)
EmitAt(wps, cell, action) == Append(wps, Waypoint(cell.x, cell.y, action))

(* faulty variant: every waypoint of the paint loop tagged "paint" *)
PaintActionAlwaysPaint(wps, cell, cw) == "paint"

(* the action of a waypoint the sweep emits: "paint" when the last waypoint
   is adjacent to the cell, else "move" *)
PaintAction(wps, cell, cw) ==
    IF wps # <<>> /\ is_adjacent(Last(wps).x, Last(wps).y, cell.x, cell.y, cw)
    THEN "paint"
    ELSE "move"

(* fill_isolated_regions: the cells in row-major order *)
RowMajor(g) ==
    [i \in 1..Cardinality(DOMAIN g) |->
        <<(i - 1) \div GridCols(g), (i - 1) % GridCols(g)>>]

RECURSIVE FillFrom(_, _, _, _)
FillFrom(g, wps, todo, cfg) ==
    IF todo = <<>> THEN [grid |-> g, waypoints |-> wps]
    ELSE LET k == Head(todo) IN
         IF ~g[k].blocked /\ ~g[k].visited
         THEN LET nav == IF wps # <<>>
                         THEN find_path_around_obstacles(g, Last(wps).x, Last(wps).y, k, cfg)
                         ELSE <<>>
              IN  FillFrom(MarkVisited(g, k),
                           Append(wps \o nav, Waypoint(g[k].x, g[k].y, "paint")),
                           Tail(todo), cfg)
         ELSE FillFrom(g, wps, Tail(todo), cfg)

fill_isolated_regions(g, wps, cfg) == FillFrom(g, wps, RowMajor(g), cfg)

(* faulty variant: "and" for "or" in the position test *)
PositionChangedOnBothAxes(wp, prev) ==
    Abs(wp.x - prev.x) > TOLERANCE /\ Abs(wp.y - prev.y) > TOLERANCE

(* remove_consecutive_duplicates: keep if position changed *)
PositionChanged(wp, prev) ==
    Abs(wp.x - prev.x) > TOLERANCE \/ Abs(wp.y - prev.y) > TOLERANCE

RECURSIVE FilterFrom(_, _)
FilterFrom(filtered, rest) ==
    IF rest = <<>> THEN filtered
    ELSE FilterFrom(IF PositionChanged(Head(rest), Last(filtered))
                    THEN Append(filtered, Head(rest))
                    ELSE filtered,
                    Tail(rest))

remove_consecutive_duplicates(wps) ==
    IF wps = <<>> THEN <<>> ELSE FilterFrom(<<wps[1]>>, Tail(wps))

----------------------------------------------------------------------------
(* The configurations a planning call is given.  Every obstacle is a
   coverage_width square on one grid cell: with the 0.3 * coverage_width
   margin it blocks that cell and no other, so the obstacle lists below
   produce every layout of at most MaxBlocked blocked cells.  The list is
   held as a set: mark_obstacles only asks whether some obstacle matches. *)

CoverageWidths == {10, 20}

Dims(max) == {5} \cup {10 * k : k \in 1..(2 * max)}

ObstacleAt(k, cw) == [x |-> k[2] * cw, y |-> k[1] * cw, width |-> cw, height |-> cw]

WallConfig(w, h, cw, blocked) ==
    [width |-> w, height |-> h, coverage_width |-> cw,
     obstacles |-> {ObstacleAt(k, cw) : k \in blocked}]

Configs ==
    UNION {
        {WallConfig(t[1], t[2], t[3], b) :
            b \in {s \in SUBSET Cells(WallConfig(t[1], t[2], t[3], {})) :
                      Cardinality(s) <= MaxBlocked}} :
        t \in {u \in Dims(MaxCols) \X Dims(MaxRows) \X CoverageWidths :
                  /\ u[1] \div u[3] <= MaxCols
                  /\ u[2] \div u[3] <= MaxRows}}

NoConfig == [width |-> 0, height |-> 0, coverage_width |-> 0, obstacles |-> {}]

----------------------------------------------------------------------------
(* generate_trajectory, one step at a time *)

ApiIdle ==
    /\ db_trajectories = {}
    /\ db_waypoints = <<>>
    /\ post_id = <<>>
    /\ post_response = <<>>
    /\ get_id = <<>>
    /\ get_response = <<>>
    /\ posts = 0

PlanStart(cfg) ==
    /\ config = cfg
    /\ grid = <<>>
    /\ waypoints = <<>>
    /\ row = 0
    /\ direction = 1
    /\ segments = <<>>
    /\ cols = <<>>
    /\ target_cell = <<>>
    /\ nav_start = <<>>
    /\ nav_path = <<>>
    /\ output = <<>>

Init ==
    /\ \E cfg \in Configs : PlanStart(cfg)
    /\ pc = "create_grid"
    /\ ApiIdle

CreateGrid ==
    /\ pc = "create_grid"
    /\ grid' = create_grid(config)
    /\ pc' = "mark_obstacles"
    /\ UNCHANGED <<config, waypoints, row, direction, segments, cols, target_cell,
                   nav_start, nav_path, output>>
    /\ UNCHANGED api_vars

MarkObstacles ==
    /\ pc = "mark_obstacles"
    /\ grid' = mark_obstacles(grid, config)
    /\ waypoints' = <<>>
    /\ row' = 0
    /\ direction' = 1
    /\ pc' = "row_loop"
    /\ UNCHANGED <<config, segments, cols, target_cell, nav_start, nav_path, output>>
    /\ UNCHANGED api_vars

(* faulty variant: the direction kept when a row has no segments *)
SkipBlockedRowKeepsDirection ==
    /\ pc = "row_loop"
    /\ row < GridRows(grid)
    /\ get_row_segments(grid, row) = <<>>
    /\ row' = row + 1
    /\ UNCHANGED <<config, grid, waypoints, direction, segments, cols, target_cell,
                   nav_start, nav_path, output, pc>>
    /\ UNCHANGED api_vars

(* a row without segments: row += 1; direction *= -1; continue *)
SkipBlockedRow ==
    /\ pc = "row_loop"
    /\ row < GridRows(grid)
    /\ get_row_segments(grid, row) = <<>>
    /\ row' = row + 1
    /\ direction' = -direction
    /\ UNCHANGED <<config, grid, waypoints, segments, cols, target_cell,
                   nav_start, nav_path, output, pc>>
    /\ UNCHANGED api_vars

(* segments of the row, reversed when going right-to-left *)
BeginRow ==
    /\ pc = "row_loop"
    /\ row < GridRows(grid)
    /\ get_row_segments(grid, row) # <<>>
    /\ segments' = IF direction = -1
                   THEN Reverse(get_row_segments(grid, row))
                   ELSE get_row_segments(grid, row)
    /\ pc' = "segment"
    /\ UNCHANGED <<config, grid, waypoints, row, direction, cols, target_cell,
                   nav_start, nav_path, output>>
    /\ UNCHANGED api_vars

(* the columns of a segment in painting order *)
SegmentCols(seg, dir) ==
    IF dir = 1
    THEN [i \in 1..(seg[2] - seg[1] + 1) |-> seg[1] + i - 1]
    ELSE [i \in 1..(seg[2] - seg[1] + 1) |-> seg[2] - i + 1]

(* navigate to segment start if needed, then set up the painting loop *)
NavigateToSegment ==
    /\ pc = "segment"
    /\ segments # <<>>
    /\ LET seg == Head(segments)
           target == <<row, seg[1]>>
           needed == /\ waypoints # <<>>
                     /\ ~is_adjacent(Last(waypoints).x, Last(waypoints).y,
                                     grid[target].x, grid[target].y,
                                     config.coverage_width)
           path == IF needed
                   THEN find_path_around_obstacles(grid, Last(waypoints).x,
                                                   Last(waypoints).y, target, config)
                   ELSE <<>>
       IN  /\ target_cell' = IF waypoints # <<>> THEN target ELSE <<>>
           /\ nav_start' = IF needed THEN <<Last(waypoints).x, Last(waypoints).y>> ELSE <<>>
           /\ nav_path' = path
           /\ waypoints' = waypoints \o path
           /\ cols' = SegmentCols(seg, direction)
    /\ pc' = "paint"
    /\ UNCHANGED <<config, grid, row, direction, segments, output>>
    /\ UNCHANGED api_vars

(* one iteration of "for col in cols" *)
PaintCell ==
    /\ pc = "paint"
    /\ cols # <<>>
    /\ LET k == <<row, Head(cols)>>
           cell == grid[k]
       IN  IF ~cell.blocked /\ ~cell.visited
           THEN /\ waypoints' = EmitAt(waypoints, cell,
                                       PaintAction(waypoints, cell, config.coverage_width))
                /\ grid' = MarkVisited(grid, k)
           ELSE UNCHANGED <<waypoints, grid>>
    /\ cols' = Tail(cols)
    /\ UNCHANGED <<config, row, direction, segments, target_cell, nav_start,
                   nav_path, output, pc>>
    /\ UNCHANGED api_vars

EndSegment ==
    /\ pc = "paint"
    /\ cols = <<>>
    /\ segments' = Tail(segments)
    /\ pc' = "segment"
    /\ UNCHANGED <<config, grid, waypoints, row, direction, cols, target_cell,
                   nav_start, nav_path, output>>
    /\ UNCHANGED api_vars

(* after the row's last segment: row += 1; direction *= -1 *)
EndRow ==
    /\ pc = "segment"
    /\ segments = <<>>
    /\ row' = row + 1
    /\ direction' = -direction
    /\ pc' = "row_loop"
    /\ UNCHANGED <<config, grid, waypoints, segments, cols, target_cell,
                   nav_start, nav_path, output>>
    /\ UNCHANGED api_vars

FillIsolatedRegions ==
    /\ pc = "row_loop"
    /\ row >= GridRows(grid)
    /\ LET filled == fill_isolated_regions(grid, waypoints, config)
       IN  /\ grid' = filled.grid
           /\ waypoints' = filled.waypoints
    /\ pc' = "compact"
    /\ UNCHANGED <<config, row, direction, segments, cols, target_cell,
                   nav_start, nav_path, output>>
    /\ UNCHANGED api_vars

RemoveConsecutiveDuplicates ==
    /\ pc = "compact"
    /\ output' = remove_consecutive_duplicates(waypoints)
    /\ pc' = "done"
    /\ UNCHANGED <<config, grid, waypoints, row, direction, segments, cols,
                   target_cell, nav_start, nav_path>>
    /\ UNCHANGED api_vars

Plan ==
    \/ CreateGrid
    \/ MarkObstacles
    \/ SkipBlockedRow
    \/ BeginRow
    \/ NavigateToSegment
    \/ PaintCell
    \/ EndSegment
    \/ EndRow
    \/ FillIsolatedRegions
    \/ RemoveConsecutiveDuplicates

Next == Plan

Spec == Init /\ [][Next]_vars

----------------------------------------------------------------------------
(* Vocabulary of the properties *)

At(wp, cell) == wp.x = cell.x /\ wp.y = cell.y

WithinTolerance(wp, cell) ==
    Abs(wp.x - cell.x) <= TOLERANCE /\ Abs(wp.y - cell.y) <= TOLERANCE

Unblocked(g) == {k \in DOMAIN g : ~g[k].blocked}

CountAt(wps, cell) == Cardinality({i \in 1..Len(wps) : At(wps[i], cell)})

FourAdjacent(a, b) == Abs(a[1] - b[1]) + Abs(a[2] - b[2]) = 1

(* the unblocked cells 4-connected to the cells of "seen" *)
RECURSIVE Component(_, _)
Component(g, seen) ==
    LET more == {n \in Unblocked(g) \ seen : \E k \in seen : FourAdjacent(k, n)}
    IN  IF more = {} THEN seen ELSE Component(g, seen \cup more)

Disconnected(g) ==
    \E a \in Unblocked(g) : Component(g, {a}) # Unblocked(g)

RowBlocked(g, r) == \A k \in DOMAIN g : k[1] = r => g[k].blocked

(* the cell the i-th waypoint of a plain zig-zag over the whole grid is at *)
ZigZagCell(g, i) ==
    LET r == (i - 1) \div GridCols(g)
        j == (i - 1) % GridCols(g)
    IN  <<r, IF r % 2 = 0 THEN j ELSE GridCols(g) - 1 - j>>

Sweeping == pc \in {"row_loop", "segment", "paint"}

----------------------------------------------------------------------------
(* C1: with no obstacles the output covers every grid cell exactly once
   (rows * cols waypoints, one at each cell centre) and the direction of
   travel alternates every row: row 0 left to right, row 1 right to left.
   Stated for cells wider than the compactor's tolerance. *)
C1_CoversOnceAlternating ==
    (pc = "done" /\ config.obstacles = {} /\ config.coverage_width > TOLERANCE) =>
        /\ Len(output) = GridRows(grid) * GridCols(grid)
        /\ \A k \in DOMAIN grid : CountAt(output, grid[k]) = 1
        /\ \A i \in 1..Len(output) :
              i <= Cardinality(DOMAIN grid) => At(output[i], grid[ZigZagCell(grid, i)])

(* C2 as claimed: when the obstacles separate the unblocked cells into
   regions that are not 4-connected, every unblocked cell is the position of
   exactly one output waypoint. *)
C2_ExactlyOnce ==
    (pc = "done" /\ Disconnected(grid) /\ config.coverage_width > TOLERANCE) =>
        \A k \in Unblocked(grid) : CountAt(output, grid[k]) = 1

(* C2 as amended: when the obstacles separate the unblocked cells into
   regions that are not 4-connected, every unblocked cell appears at least
   once in the output: some output waypoint is within the compactor's
   tolerance of its centre, and at its centre when the cells are wider than
   that tolerance. *)
C2_AtLeastOnce ==
    (pc = "done" /\ Disconnected(grid)) =>
        \A k \in Unblocked(grid) :
            /\ \E i \in 1..Len(output) : WithinTolerance(output[i], grid[k])
            /\ config.coverage_width > TOLERANCE => CountAt(output, grid[k]) >= 1

C2_Witness ==
    /\ pc = "done"
    /\ Disconnected(grid)
    /\ config.coverage_width > TOLERANCE
    /\ \E k \in Unblocked(grid) : CountAt(output, grid[k]) >= 2

(* C3: for every obstacle layout the call terminates (every step lowers a
   bound on the steps left, and until the return a step is at hand); a
   cell's visited flag never goes back to false and goes from false to true
   only for an unblocked cell, in the step of the paint loop or of the
   cleanup pass that emits a waypoint at that cell's centre; and at the
   return no unblocked cell is unvisited. *)
VisitedOnlyWhenEmitted ==
    \A k \in DOMAIN grid \cap DOMAIN grid' :
        /\ grid[k].visited => grid'[k].visited
        /\ (~grid[k].visited /\ grid'[k].visited) =>
              /\ ~grid[k].blocked
              /\ \/ /\ pc = "paint"
                    /\ Len(waypoints') = Len(waypoints) + 1
                    /\ At(Last(waypoints'), grid[k])
                 \/ /\ pc = "row_loop" /\ pc' = "compact"
                    /\ \E i \in (Len(waypoints) + 1)..Len(waypoints') :
                          At(waypoints'[i], grid[k]) /\ waypoints'[i].action = "paint"
              /\ \A i \in 1..Len(waypoints) : waypoints'[i] = waypoints[i]

(* an upper bound on the steps the call has left *)
SegmentsCost(segs) ==
    LET cost[i \in 0..Len(segs)] ==
            IF i = 0 THEN 0 ELSE cost[i - 1] + 2 + (segs[i][2] - segs[i][1] + 1)
    IN  cost[Len(segs)]

RowCost == 3 * num_cols(config) + 3

StepsLeft ==
    CASE pc = "create_grid" -> num_rows(config) * RowCost + 4
      [] pc = "mark_obstacles" -> num_rows(config) * RowCost + 3
      [] pc = "row_loop" -> (num_rows(config) - row) * RowCost + 2
      [] pc = "segment" ->
            (num_rows(config) - row - 1) * RowCost + 3 + SegmentsCost(segments)
      [] pc = "paint" ->
            (num_rows(config) - row - 1) * RowCost + 3
                + SegmentsCost(Tail(segments)) + 1 + Len(cols)
      [] pc = "compact" -> 1
      [] OTHER -> 0

(* short of the return, the step at hand is defined: its guard holds and
   the cell it reads is a cell of the grid *)
CanStep ==
    CASE pc \in {"create_grid", "mark_obstacles", "row_loop", "compact"} -> TRUE
      [] pc = "segment" ->
            segments # <<>> => <<row, Head(segments)[1]>> \in DOMAIN grid
      [] pc = "paint" ->
            segments # <<>> /\ (cols # <<>> => <<row, Head(cols)>> \in DOMAIN grid)
      [] OTHER -> FALSE

C3_VisitedExactlyOnce ==
    /\ [][VisitedOnlyWhenEmitted /\ StepsLeft' < StepsLeft]_vars
    /\ [](StepsLeft >= 0 /\ (pc # "done" => CanStep))
    /\ [](pc = "done" => \A k \in Unblocked(grid) : grid[k].visited)

C3_Witness ==
    /\ pc = "done"
    /\ nav_start # <<>>
    /\ nav_path = <<>>
    /\ Cardinality(Unblocked(grid)) >= 2
    /\ \A k \in Unblocked(grid) : grid[k].visited

(* C4: no waypoint, from the sweep, the Navigator or the cleanup pass, is at
   the centre of a blocked cell, and no blocked cell is ever visited. *)
C4_NeverOnBlocked ==
    \A k \in DOMAIN grid :
        grid[k].blocked =>
            /\ ~grid[k].visited
            /\ \A i \in 1..Len(waypoints) : ~At(waypoints[i], grid[k])
            /\ \A i \in 1..Len(nav_path) : ~At(nav_path[i], grid[k])
            /\ \A i \in 1..Len(output) : ~At(output[i], grid[k])

C4_Witness ==
    /\ pc = "done"
    /\ \E k \in DOMAIN grid : grid[k].blocked
    /\ nav_path # <<>>
    /\ \E i \in 1..Len(output) : output[i].action = "move" /\ i > 1

(* C5: every output waypoint lies in [0, width] x [0, height], also when
   the grid is clamped to one row or one column. *)
C5_WithinWall ==
    \A i \in 1..Len(output) :
        /\ 0 <= output[i].x /\ output[i].x <= config.width
        /\ 0 <= output[i].y /\ output[i].y <= config.height

(* C7: no two consecutive output waypoints are within the tolerance on both
   axes, and the output is the raw list restricted to the kept indices:
   index 1, and every later index whose waypoint is farther than the
   tolerance, on some axis, from the waypoint at the last kept index before
   it, whatever the action tags. *)
LastKept(wps) ==
    LET lk[j \in 1..Len(wps)] ==
            IF j = 1 THEN 1
            ELSE LET p == lk[j - 1]
                 IN  IF \/ Abs(wps[j].x - wps[p].x) > TOLERANCE
                        \/ Abs(wps[j].y - wps[p].y) > TOLERANCE
                     THEN j
                     ELSE p
    IN  lk

KeptIndices(wps) ==
    LET lk == LastKept(wps) IN {j \in 1..Len(wps) : lk[j] = j}

C7_Compacted ==
    pc = "done" =>
        LET kept == KeptIndices(waypoints)
        IN  /\ \A i \in 1..(Len(output) - 1) :
                  ~(/\ Abs(output[i + 1].x - output[i].x) <= TOLERANCE
                    /\ Abs(output[i + 1].y - output[i].y) <= TOLERANCE)
            /\ Len(output) = Cardinality(kept)
            /\ \A j \in kept :
                  output[Cardinality({i \in kept : i <= j})] = waypoints[j]

C7_Witness ==
    /\ pc = "done"
    /\ LET lk == LastKept(waypoints)
       IN  \E j \in 2..Len(waypoints) :
              lk[j] # j /\ waypoints[j].action # waypoints[lk[j]].action

(* C8: a row whose cells are all blocked yields no segments and no
   waypoints, and the direction still flips for it: throughout the sweep the
   direction is +1 on even rows and -1 on odd rows, painted or not. *)
SkipsBlockedRow ==
    (pc = "row_loop" /\ row < GridRows(grid) /\ RowBlocked(grid, row)) =>
        /\ get_row_segments(grid, row) = <<>>
        /\ waypoints' = waypoints
        /\ row' = row + 1
        /\ direction' = -direction

C8_BlockedRowFlips ==
    /\ [][SkipsBlockedRow]_vars
    /\ [](Sweeping => direction = IF row % 2 = 0 THEN 1 ELSE -1)
    /\ [](pc = "done" =>
            \A k \in DOMAIN grid :
                RowBlocked(grid, k[1]) => \A i \in 1..Len(output) : output[i].y # grid[k].y)

C8_Witness ==
    /\ pc = "paint"
    /\ row >= 1
    /\ RowBlocked(grid, row - 1)
    /\ waypoints # <<>>
    /\ At(Last(waypoints), grid[<<row, Last(SegmentCols(Head(segments), direction))>>])

(* C10: when the sweep decides whether to navigate to a segment, the cell
   used by the adjacency test and as the Navigator's target is the
   segment's first cell in traversal order: its lowest column when the
   direction is +1, its highest when the direction is -1. *)
C10_TargetIsFirstPainted ==
    (pc = "paint" /\ target_cell # <<>> /\ cols = SegmentCols(Head(segments), direction)) =>
        target_cell = <<row, IF direction = 1 THEN Head(segments)[1] ELSE Head(segments)[2]>>

(* the paint loop is at the first cell of a segment for which the sweep has
   just appended a non-empty Navigator result *)
FreshlyNavigated ==
    /\ pc = "paint"
    /\ nav_path # <<>>
    /\ segments # <<>>
    /\ cols = SegmentCols(Head(segments), direction)

(* the step is an iteration of the paint loop that emits a waypoint *)
PaintEmits ==
    /\ pc = "paint"
    /\ cols # <<>>
    /\ Len(waypoints') = Len(waypoints) + 1

LastAdjacentTo(k) ==
    /\ waypoints # <<>>
    /\ is_adjacent(Last(waypoints).x, Last(waypoints).y, grid[k].x, grid[k].y,
                   config.coverage_width)

(* C11 as claimed: when the sweep has just appended a non-empty Navigator
   result for a segment, the Navigator's last waypoint is not adjacent to the
   first cell then painted, and that cell's waypoint is tagged "move"; any
   other waypoint of the paint step is tagged "paint" iff the waypoint
   emitted before it is adjacent to the cell, else "move". *)
C11_FirstPaintedIsMove ==
    [][PaintEmits =>
          IF FreshlyNavigated
          THEN /\ ~LastAdjacentTo(<<row, Head(cols)>>)
               /\ Last(waypoints').action = "move"
          ELSE Last(waypoints').action =
                  (IF LastAdjacentTo(<<row, Head(cols)>>) THEN "paint" ELSE "move")]_vars

(* C11 as amended: every waypoint of the paint step is tagged "paint" iff
   the waypoint emitted before it is adjacent to the cell, else "move", with
   no exception after a navigation; a non-empty Navigator result ends at the
   centre of the Navigator's target cell, so the first cell painted after it
   gets "paint" when it is the target cell or its column neighbour and
   "move" when it is two or more columns from the target. *)
C11_PaintIffAdjacent ==
    /\ [][PaintEmits =>
            /\ At(Last(waypoints'), grid[<<row, Head(cols)>>])
            /\ Last(waypoints').action =
                  (IF LastAdjacentTo(<<row, Head(cols)>>) THEN "paint" ELSE "move")]_vars
    /\ [][(PaintEmits /\ FreshlyNavigated) =>
            /\ At(Last(waypoints), grid[target_cell])
            /\ target_cell[1] = row
            /\ Last(waypoints').action =
                  (IF Abs(Head(cols) - target_cell[2]) <= 1 THEN "paint" ELSE "move")]_vars
    /\ [](FreshlyNavigated => ~grid[<<row, Head(cols)>>].visited)

(* after a navigation the first cell of the segment was painted where the
   Navigator's last waypoint already is, and tagged "paint" *)
C11_Witness ==
    /\ pc = "paint"
    /\ nav_path # <<>>
    /\ segments # <<>>
    /\ Len(cols) + 1 = Len(SegmentCols(Head(segments), direction))
    /\ Len(waypoints) >= 2
    /\ Last(waypoints).action = "paint"
    /\ waypoints[Len(waypoints) - 1] = Last(nav_path)
    /\ At(Last(waypoints), grid[target_cell])

(* the row loop has finished and the cleanup pass is about to run *)
SweepFinished == pc = "row_loop" /\ row >= GridRows(grid)

(* C13: when the row loop finishes every unblocked cell is already
   visited, for every obstacle layout, disconnected regions and failed
   navigation included; so the cleanup pass finds no cell to go to: it makes
   no call of the Navigator, appends no waypoint and changes no cell. *)
C13_CleanupFindsNothing ==
    /\ [](SweepFinished => \A k \in Unblocked(grid) : grid[k].visited)
    /\ [](SweepFinished =>
            /\ fill_isolated_regions(grid, waypoints, config).waypoints = waypoints
            /\ fill_isolated_regions(grid, waypoints, config).grid = grid)
    /\ [][SweepFinished => (waypoints' = waypoints /\ grid' = grid)]_vars

(* the cleanup pass has run on a grid of separate regions, after a sweep
   whose last navigation failed *)
C13_Witness ==
    /\ pc = "compact"
    /\ Disconnected(grid)
    /\ nav_start # <<>>
    /\ nav_path = <<>>
    /\ Cardinality(Unblocked(grid)) >= 3
    /\ Len(waypoints) >= Cardinality(Unblocked(grid))

(* C14: in every output the first waypoint is tagged "move" and every
   waypoint tagged "paint" is adjacent to the waypoint immediately before it
   in the output (both |dx| and |dy| below 1.5 * coverage_width). *)
C14_PaintOnlyWhenAdjacent ==
    (pc = "done" /\ output # <<>>) =>
        /\ output[1].action = "move"
        /\ \A i \in 2..Len(output) :
              output[i].action = "paint" =>
                  is_adjacent(output[i - 1].x, output[i - 1].y, output[i].x, output[i].y,
                              config.coverage_width)

(* the same for cells wider than the compactor's tolerance *)
C14_WideCells ==
    config.coverage_width > TOLERANCE => C14_PaintOnlyWhenAdjacent

----------------------------------------------------------------------------
(* The Navigator on its own: find_path_around_obstacles applied to a marked
   grid, a start position and an unblocked target cell. *)

NavConfigs ==
    {c \in Configs : /\ c.coverage_width = 20
                     /\ c.width % 20 = 0
                     /\ c.height % 20 = 0
                     /\ num_rows(c) * num_cols(c) <= NavMaxCells}

(* cell centres (odd indices) and the points on cell boundaries and wall
   edges (even indices), where several cells are equally near *)
StartPositions(cfg) ==
    {<<(i * cfg.coverage_width) \div 2, (j * cfg.coverage_width) \div 2>> :
        i \in 0..(2 * num_cols(cfg)), j \in 0..(2 * num_rows(cfg))}

NavInit ==
    /\ \E cfg \in NavConfigs :
          /\ config = cfg
          /\ grid = mark_obstacles(create_grid(cfg), cfg)
          /\ \E t \in Unblocked(mark_obstacles(create_grid(cfg), cfg)) : target_cell = t
          /\ \E p \in StartPositions(cfg) : nav_start = p
    /\ waypoints = <<>>
    /\ row = 0
    /\ direction = 1
    /\ segments = <<>>
    /\ cols = <<>>
    /\ nav_path = <<>>
    /\ output = <<>>
    /\ pc = "find_path"
    /\ ApiIdle

FindPath ==
    /\ pc = "find_path"
    /\ nav_path' = find_path_around_obstacles(grid, nav_start[1], nav_start[2],
                                              target_cell, config)
    /\ pc' = "path_found"
    /\ UNCHANGED <<config, grid, waypoints, row, direction, segments, cols,
                   target_cell, nav_start, output>>
    /\ UNCHANGED api_vars

NavNext == FindPath

NavSpec == NavInit /\ [][NavNext]_vars

(* the cells at the least distance from a position *)
NearestCells(g, p) ==
    {k \in DOMAIN g : \A j \in DOMAIN g : SqDist(g[k], p[1], p[2]) <= SqDist(g[j], p[1], p[2])}

(* the cell a waypoint is at the centre of *)
CellsAt(g, wp) == {k \in DOMAIN g : At(wp, g[k])}

(* C6: a non-empty result of the Navigator is a sequence of "move"
   waypoints at centres of unblocked cells, whose first cell is a
   4-neighbour of a cell nearest the start position, whose consecutive cells
   are 4-neighbours, whose last waypoint is at the target's centre and in
   which that start cell does not occur; the result is empty when the
   nearest cell is blocked or the target is not 4-reachable from it. *)
C6_NavigatorContract ==
    pc = "path_found" =>
        /\ nav_path # <<>> =>
              /\ \A i \in 1..Len(nav_path) :
                    /\ nav_path[i].action = "move"
                    /\ \E k \in Unblocked(grid) : At(nav_path[i], grid[k])
              /\ \A i \in 1..(Len(nav_path) - 1) :
                    \E a \in CellsAt(grid, nav_path[i]), b \in CellsAt(grid, nav_path[i + 1]) :
                        FourAdjacent(a, b)
              /\ At(Last(nav_path), grid[target_cell])
              /\ \E s \in NearestCells(grid, nav_start) :
                    /\ \E a \in CellsAt(grid, nav_path[1]) : FourAdjacent(s, a)
                    /\ \A i \in 1..Len(nav_path) : ~At(nav_path[i], grid[s])
        /\ (\A s \in NearestCells(grid, nav_start) :
                grid[s].blocked \/ target_cell \notin Component(grid, {s}))
              => nav_path = <<>>

C6_Witness ==
    /\ pc = "path_found"
    /\ Len(nav_path) >= 3
    /\ \E k \in DOMAIN grid : grid[k].blocked
    /\ Cardinality(NearestCells(grid, nav_start)) >= 2

(* breadth-first distance, in 4-connected steps through unblocked cells,
   from the cells of "frontier" (at distance d) to the target; -1 when the
   target cannot be reached *)
RECURSIVE BfsDistance(_, _, _, _, _)
BfsDistance(g, frontier, seen, target, d) ==
    IF target \in frontier THEN d
    ELSE IF frontier = {} THEN -1
    ELSE LET next == {n \in Unblocked(g) \ seen : \E k \in frontier : FourAdjacent(k, n)}
         IN  BfsDistance(g, next, seen \cup next, target, d + 1)

(* C12: a non-empty result of find_path_around_obstacles is a shortest
   path: it has as many waypoints as the breadth-first 4-connected distance
   through unblocked cells from the start cell to the target cell. *)
C12_ShortestPath ==
    (pc = "path_found" /\ nav_path # <<>>) =>
        LET start_cell == find_nearest_cell(grid, nav_start[1], nav_start[2])
        IN  Len(nav_path) = BfsDistance(grid, {start_cell}, {start_cell}, target_cell, 0)

(* a path found around obstacles, longer than the Manhattan distance, on a
   grid where the search has routes of different lengths to choose from *)
C12_Witness ==
    /\ pc = "path_found"
    /\ nav_path # <<>>
    /\ LET start_cell == find_nearest_cell(grid, nav_start[1], nav_start[2])
       IN  /\ Len(nav_path) >
                 Abs(start_cell[1] - target_cell[1]) + Abs(start_cell[2] - target_cell[2])
           /\ Cardinality(Neighbors(grid, start_cell)) >= 2
           /\ Cardinality(Neighbors(grid, target_cell)) >= 2

----------------------------------------------------------------------------
(* The API of app/main.py over the store of app/database.py *)

ApiConfigs ==
    {c \in Configs : c.width \in {10, 20, 40} /\ c.height \in {10, 20, 40}
                     /\ Cardinality(c.obstacles) <= 1}

(* config_hash: md5 of the string made of width, height and the obstacles'
   (x, y, width, height); coverage_width is not part of it.  The digest is
   modelled by the data it is computed from. *)
ConfigHash(cfg) == <<cfg.width, cfg.height, cfg.obstacles>>

(* create_trajectory: "Obstacle exceeds wall bounds" *)
ObstacleExceedsWall(cfg) ==
    \E obs \in cfg.obstacles :
        obs.x + obs.width > cfg.width \/ obs.y + obs.height > cfg.height

(* save_trajectory: nothing is stored when the id is already there *)
save_trajectory(trajectories, rows, trajectory_id, wps) ==
    IF trajectory_id \in trajectories
    THEN [trajectories |-> trajectories, waypoints |-> rows]
    ELSE [trajectories |-> trajectories \cup {trajectory_id},
          waypoints |->
              rows \o [i \in 1..Len(wps) |->
                          [trajectory_id |-> trajectory_id, x |-> wps[i].x,
                           y |-> wps[i].y, action |-> wps[i].action]]]

(* ORDER BY y, x *)
YXBefore(a, b) == a.y < b.y \/ (a.y = b.y /\ a.x < b.x)

(* the orders SELECT ... ORDER BY y, x may return the rows at the indices
   idxs in: rows equal in (y, x) come in an order SQL leaves open *)
RECURSIVE OrderByYX(_, _)
OrderByYX(rows, idxs) ==
    IF idxs = {} THEN {<<>>}
    ELSE UNION {
            {<<Waypoint(rows[i].x, rows[i].y, rows[i].action)>> \o rest :
                rest \in OrderByYX(rows, idxs \ {i})} :
            i \in {i \in idxs : \A j \in idxs : ~YXBefore(rows[j], rows[i])}}

get_trajectory_by_id(rows, trajectory_id) ==
    OrderByYX(rows, {i \in 1..Len(rows) : rows[i].trajectory_id = trajectory_id})

ApiInit ==
    /\ PlanStart(NoConfig)
    /\ pc = "idle"
    /\ ApiIdle

(* POST /api/trajectories up to the call of generate_trajectory *)
Post ==
    /\ pc = "idle"
    /\ posts < MaxPosts
    /\ posts' = posts + 1
    /\ get_id' = <<>>
    /\ get_response' = <<>>
    /\ \E cfg \in ApiConfigs :
          IF ObstacleExceedsWall(cfg)
          THEN /\ post_id' = <<>>
               /\ post_response' = <<"400">>
               /\ pc' = "idle"
               /\ UNCHANGED <<config, grid, waypoints, row, direction, segments,
                              cols, target_cell, nav_start, nav_path, output>>
          ELSE /\ post_id' = ConfigHash(cfg)
               /\ post_response' = <<>>
               /\ config' = cfg
               /\ grid' = <<>>
               /\ waypoints' = <<>>
               /\ row' = 0
               /\ direction' = 1
               /\ segments' = <<>>
               /\ cols' = <<>>
               /\ target_cell' = <<>>
               /\ nav_start' = <<>>
               /\ nav_path' = <<>>
               /\ output' = <<>>
               /\ pc' = "create_grid"
    /\ UNCHANGED <<db_trajectories, db_waypoints>>

(* POST /api/trajectories from the return of generate_trajectory on *)
SaveAndRespond ==
    /\ pc = "done"
    /\ LET saved == save_trajectory(db_trajectories, db_waypoints, post_id, output)
       IN  /\ db_trajectories' = saved.trajectories
           /\ db_waypoints' = saved.waypoints
    /\ post_response' = output
    /\ pc' = "idle"
    /\ UNCHANGED <<config, grid, waypoints, row, direction, segments, cols,
                   target_cell, nav_start, nav_path, output, post_id, get_id,
                   get_response, posts>>

(* GET /api/trajectories/{trajectory_id} *)
Get ==
    /\ pc = "idle"
    /\ \E id \in {ConfigHash(c) : c \in ApiConfigs} :
          /\ get_id' = id
          /\ get_response' \in get_trajectory_by_id(db_waypoints, id)
    /\ UNCHANGED <<config, grid, waypoints, row, direction, segments, cols,
                   target_cell, nav_start, nav_path, output, pc, db_trajectories,
                   db_waypoints, post_id, post_response, posts>>

ApiNext == Post \/ Plan \/ SaveAndRespond \/ Get

ApiSpec == ApiInit /\ [][ApiNext]_vars

(* C9: after a POST has stored a trajectory under the configuration's hash
   id, a GET of that id returns exactly the waypoint sequence the POST
   returned, the same waypoints in the same order. *)
C9_RoundTrip ==
    (pc = "idle" /\ get_id # <<>> /\ get_id = post_id) => get_response = post_response

====
